---- MODULE Spec2Model ----
(***************************************************************************)
(* The hash-composition pipeline of pgoapi/utilities.py: the float codec   *)
(* (f2h, d2h), the salted wrappers (hash64salt32, hash64salt64, hash32),   *)
(* the call into the native primitive (calcHash) and the three public      *)
(* hash functions.                                                         *)
(*                                                                         *)
(* Representation.  A Python integer of w bytes is the sequence of its     *)
(* base-256 digits, least significant first (so a little-endian struct     *)
(* format lays the digits out in order and a big-endian one reverses       *)
(* them).  A signed Python integer is [ext, dig]: two's complement digits  *)
(* dig, continued to the left by the byte ext (0 or 255) for ever.  A byte *)
(* string is the sequence of its bytes in memory order; a str is the       *)
(* sequence of its characters.  A float64 is the record of its IEEE-754    *)
(* fields: sign, exp (11 bits), fracHi (the top 4 fraction bits), fracLo   *)
(* (the low 48 fraction bits as 6 digits).  A bytes-or-None argument is    *)
(* [none, bytes].                                                          *)
(***************************************************************************)
EXTENDS Integers, Sequences, FiniteSets, TLC

----------------------------------------------------------------------------
(* Bounds of the model *)

\* the primitive distinguishes NumClasses classes of buffers
NumClasses == 2

----------------------------------------------------------------------------
(* Input pools *)

Float(s, e, h, l) == [sign |-> s, exp |-> e, fracHi |-> h, fracLo |-> l]

FZero    == Float(0, 0, 0, <<0, 0, 0, 0, 0, 0>>)       \* 0.0
FNegTwo  == Float(1, 1024, 0, <<0, 0, 0, 0, 0, 0>>)    \* -2.0
FFive    == Float(0, 1025, 4, <<0, 0, 0, 0, 0, 0>>)    \* 5.0, the default acc
FSub1    == Float(0, 0, 0, <<1, 0, 0, 0, 0, 0>>)       \* 2^-1074 (bits 0x01)
FSub257  == Float(0, 0, 0, <<1, 1, 0, 0, 0, 0>>)       \* 257 * 2^-1074 (bits 0x0101)

LatPool == {FZero, FSub1, FSub257}
LngPool == {FNegTwo, FSub1, FSub257}
AccPool == {FFive}
FloatPool == LatPool \cup LngPool \cup AccPool

PyNone == [none |-> TRUE, bytes |-> <<>>]
PyBytes(b) == [none |-> FALSE, bytes |-> b]

\* an auth ticket or a request: None, empty, or one byte
BufferPool == {PyNone, PyBytes(<<>>), PyBytes(<<171>>)}

\* outputs of the native primitive (uint64, digits least significant first)
Out_1_2     == <<2, 0, 0, 0, 1, 0, 0, 0>>           \* 0x0000000100000002
Out_Top     == <<0, 0, 0, 0, 0, 0, 0, 128>>         \* 0x8000000000000000
Out_Max31   == <<255, 255, 255, 127, 0, 0, 0, 0>>   \* 0x000000007FFFFFFF
OutPool == {Out_1_2, Out_Top, Out_Max31}

----------------------------------------------------------------------------
(* Strings and bytes *)

HexDigits == <<"0", "1", "2", "3", "4", "5", "6", "7",
               "8", "9", "a", "b", "c", "d", "e", "f">>

RECURSIVE BitXor(_, _)
BitXor(a, b) ==
    IF a = 0 /\ b = 0 THEN 0
    ELSE (((a % 2) + (b % 2)) % 2) + (2 * BitXor(a \div 2, b \div 2))

Reverse(s) == [i \in 1..Len(s) |-> s[Len(s) + 1 - i]]

\* str.replace(c, ''): every occurrence of the character c removed
Replace(s, c) == SelectSeq(s, LAMBDA ch : ch # c)

\* hex(n) of a non-negative integer: "0x", the hexadecimal digits without
\* leading zeros (one "0" for zero), and Python 2's "L" when n is a long
RECURSIVE StripZeros(_)
StripZeros(s) ==
    IF s = <<>> THEN <<>>
    ELSE IF Head(s) = 0 THEN StripZeros(Tail(s)) ELSE s

Nibbles(n) ==
    [i \in 1..(2 * Len(n)) |->
        LET d == n[Len(n) - ((i - 1) \div 2)]
        IN  IF (i % 2) = 1 THEN d \div 16 ELSE d % 16]

IsLong(n) == Len(n) >= 8 /\ n[8] >= 128

hex(n) ==
    LET ds == StripZeros(Nibbles(n))
        body == IF ds = <<>> THEN <<"0">>
                ELSE [i \in 1..Len(ds) |-> HexDigits[ds[i] + 1]]
    IN  <<"0", "x">> \o body \o (IF IsLong(n) THEN <<"L">> ELSE <<>>)

HexVal(c) == CHOOSE v \in 0..15 : HexDigits[v + 1] = c

\* binascii.unhexlify of an even-length hexadecimal str
unhexlify(s) ==
    [i \in 1..(Len(s) \div 2) |->
        (16 * HexVal(s[(2 * i) - 1])) + HexVal(s[2 * i])]

----------------------------------------------------------------------------
(* struct *)

\* struct.pack('<d', f): the 8 bytes of the IEEE-754 pattern, low byte first
struct_pack_d(f) ==
    f.fracLo \o <<((f.exp % 16) * 16) + f.fracHi,
                  (f.sign * 128) + (f.exp \div 16)>>

\* struct.unpack('<Q', b)[0]: the integer whose digits are the bytes of b
struct_unpack_Q(b) == [i \in 1..8 |-> b[i]]

\* a variant of struct_pack_I: the format "<I", least significant first
struct_pack_I_little(n) == [i \in 1..4 |-> n[i]]

\* struct.pack(">I", n): the 4 digits of n, most significant first
struct_pack_I(n) == [i \in 1..4 |-> n[5 - i]]

\* struct.pack(">Q", n): the 8 digits of n, most significant first
struct_pack_Q(n) == [i \in 1..8 |-> n[9 - i]]

----------------------------------------------------------------------------
(* The float codec *)

f2h(f) == hex(struct_unpack_Q(struct_pack_d(f)))

d2h(f) ==
    LET hex_str == Replace(SubSeq(f2h(f), 3, Len(f2h(f))), "L")
        padded == (IF (Len(hex_str) % 2) = 1 THEN <<"0">> ELSE <<>>) \o hex_str
    IN  unhexlify(padded)

\* d2h of every float of the pools, computed once
Encoded == [f \in FloatPool |-> d2h(f)]

----------------------------------------------------------------------------
(* ctypes *)

\* ctypes.c_uint64(n).value for n >= 0: n modulo 2^64
c_uint64(n) == SubSeq(n, 1, 8)

\* ctypes.c_int64(n).value for 0 <= n < 2^64: the same 64 bits, signed
c_int64(n) == [ext |-> IF n[8] >= 128 THEN 255 ELSE 0, dig |-> n]

\* ctypes.c_uint(s).value of a signed integer: its low 32 bits
c_uint(s) == SubSeq(s.dig, 1, 4)

\* s >> 32 of a signed integer (arithmetic shift, the sign continues)
Shr32(s) ==
    [ext |-> s.ext,
     dig |-> SubSeq(s.dig, 5, Len(s.dig)) \o <<s.ext, s.ext, s.ext, s.ext>>]

\* a ^ b of two unsigned integers of the same width
Xor(a, b) == [i \in 1..Len(a) |-> BitXor(a[i], b[i])]

\* a variant of c_int32: the sign bit dropped instead of reinterpreted
c_int32_unsigned31(n) ==
    ((n[4] % 128) * 16777216) + (n[3] * 65536) + (n[2] * 256) + n[1]

\* ctypes.c_int32(n).value for 0 <= n < 2^32, as an integer of the model
c_int32(n) ==
    ((IF n[4] >= 128 THEN n[4] - 256 ELSE n[4]) * 16777216)
        + (n[3] * 65536) + (n[2] * 256) + n[1]

----------------------------------------------------------------------------
(* State *)

VARIABLES
    module,     \* the import of utilities.py: "boot", "ready" or "failed"
    nhash,      \* the global _nhash: "unset" or "lib"
    loads,      \* how many times LoadLibrary has run
    loadError,  \* LoadLibrary raised
    prim,       \* compute_hash of the loaded library, as a function of the
                \* class of its buffer
    last,       \* the most recent call of a hash function and its outcome
    memo        \* an earlier call of generate_location_hash, kept to compare:
                \* [call, stale], stale once another call has followed it

vars == <<module, nhash, loads, loadError, prim, last, memo>>

HASH_SEED == <<191, 127, 36, 97>>    \* 0x61247FBF

RECURSIVE SumBytes(_)
SumBytes(b) == IF b = <<>> THEN 0 ELSE Head(b) + SumBytes(Tail(b))

\* _nhash.compute_hash(array, num_bytes), restype c_uint64
compute_hash(arr, num_bytes) ==
    prim[(SumBytes(SubSeq(arr, 1, num_bytes)) + num_bytes) % NumClasses]

Raised(calls) == [ok |-> FALSE, value |-> <<>>, calls |-> calls]
Returned(value, calls) == [ok |-> TRUE, value |-> value, calls |-> calls]

\* a variant of calcHash: the buffer keeps a byte of the previous call
calcHash_leftover(buf) ==
    LET arr == [i \in 1..Len(buf) |-> buf[i]] \o <<Len(last.calls)>>
        num_bytes == Len(arr)
        data == compute_hash(arr, num_bytes)
    IN  Returned(c_uint64(data), <<arr>>)

calcHash(buf) ==
    LET arr == [i \in 1..Len(buf) |-> buf[i]]
        num_bytes == Len(arr)
        data == compute_hash(arr, num_bytes)
    IN  Returned(c_uint64(data), <<arr>>)

\* a variant of calcHash_nhash: the handle is dropped after the call
calcHash_nhash_dropped(handle) == "unset"

\* what a call of calcHash leaves in _nhash
calcHash_nhash(handle) == handle

hash64salt32(buf, seed) ==
    IF buf.none THEN Raised(<<>>)
    ELSE calcHash(struct_pack_I(seed) \o buf.bytes)

hash64salt64(buf, seed) ==
    IF buf.none THEN Raised(<<>>)
    ELSE calcHash(struct_pack_Q(seed) \o buf.bytes)

\* a variant of hash32: the low word alone, the high word not folded in
hash32_low_word(buf, seed) ==
    IF buf.none THEN Raised(<<>>)
    ELSE LET r == calcHash(struct_pack_I(seed) \o buf.bytes)
         IN  Returned(c_uint(c_int64(r.value)), r.calls)

hash32(buf, seed) ==
    IF buf.none THEN Raised(<<>>)
    ELSE LET r == calcHash(struct_pack_I(seed) \o buf.bytes)
             signedhash64 == c_int64(r.value)
         IN  Returned(Xor(c_uint(signedhash64), c_uint(Shr32(signedhash64))),
                      r.calls)

----------------------------------------------------------------------------
(* The public hash functions.  An outcome is [status, ret32, ret64, calls, *)
(* parts]: "returned" or "raised", the int32 or int64 returned, the        *)
(* buffers handed to compute_hash in order, and the three encoded floats.  *)

NoInt64 == [ext |-> 0, dig |-> <<>>]

Outcome(status, ret32, ret64, calls, parts) ==
    [status |-> status, ret32 |-> ret32, ret64 |-> ret64,
     calls |-> calls, parts |-> parts]

\* a variant of generate_location_hash_by_seed: the coordinate stage is
\* seeded with HASH_SEED, the auth-ticket hash is computed and dropped
generate_location_hash_by_seed_unchained(authticket, lat, lng, acc) ==
    LET first_hash == hash32(authticket, HASH_SEED)
        parts == <<Encoded[lat], Encoded[lng], Encoded[acc]>>
        location_bytes == parts[1] \o parts[2] \o parts[3]
        loc_hash == hash32(PyBytes(location_bytes), HASH_SEED)
    IN  IF ~first_hash.ok
        THEN Outcome("raised", 0, NoInt64, first_hash.calls, <<>>)
        ELSE Outcome("returned", c_int32(loc_hash.value), NoInt64,
                     first_hash.calls \o loc_hash.calls, parts)

generate_location_hash_by_seed(authticket, lat, lng, acc) ==
    LET first_hash == hash32(authticket, HASH_SEED)
        parts == <<Encoded[lat], Encoded[lng], Encoded[acc]>>
        location_bytes == parts[1] \o parts[2] \o parts[3]
        loc_hash == hash32(PyBytes(location_bytes), first_hash.value)
    IN  IF ~first_hash.ok
        THEN Outcome("raised", 0, NoInt64, first_hash.calls, <<>>)
        ELSE Outcome("returned", c_int32(loc_hash.value), NoInt64,
                     first_hash.calls \o loc_hash.calls, parts)

generate_location_hash(lat, lng, acc) ==
    LET parts == <<Encoded[lat], Encoded[lng], Encoded[acc]>>
        location_bytes == parts[1] \o parts[2] \o parts[3]
        loc_hash == hash32(PyBytes(location_bytes), HASH_SEED)
    IN  Outcome("returned", c_int32(loc_hash.value), NoInt64,
                loc_hash.calls, parts)

\* a variant of generate_request_hash: the first stage folded to 32 bits
\* and the request salted with 4 bytes
generate_request_hash_folded(authticket, request) ==
    LET first_hash == hash32(authticket, HASH_SEED)
        req_hash == hash64salt32(request, first_hash.value)
    IN  IF ~first_hash.ok
        THEN Outcome("raised", 0, NoInt64, first_hash.calls, <<>>)
        ELSE IF ~req_hash.ok
        THEN Outcome("raised", 0, NoInt64, first_hash.calls, <<>>)
        ELSE Outcome("returned", 0, c_int64(req_hash.value),
                     first_hash.calls \o req_hash.calls, <<>>)

generate_request_hash(authticket, request) ==
    LET first_hash == hash64salt32(authticket, HASH_SEED)
        req_hash == hash64salt64(request, first_hash.value)
    IN  IF ~first_hash.ok
        THEN Outcome("raised", 0, NoInt64, first_hash.calls, <<>>)
        ELSE IF ~req_hash.ok
        THEN Outcome("raised", 0, NoInt64, first_hash.calls, <<>>)
        ELSE Outcome("returned", 0, c_int64(req_hash.value),
                     first_hash.calls \o req_hash.calls, <<>>)

----------------------------------------------------------------------------
(* The import of the module and the calls of its functions *)

\* lines 47-49: LoadLibrary either returns the handle, and the import goes
\* on, or raises OSError, and the import of utilities.py fails
\* a variant of ImportModule: a failed load is caught and the import goes on
ImportModule_swallowed(loaded) == [module |-> "ready", nhash |-> "lib"]

ImportModule(loaded) ==
    IF loaded THEN [module |-> "ready", nhash |-> "lib"]
    ELSE [module |-> "failed", nhash |-> "unset"]

Call(op, authticket, lat, lng, acc, request, out) ==
    [op |-> op, authticket |-> authticket, lat |-> lat, lng |-> lng,
     acc |-> acc, request |-> request, status |-> out.status,
     ret32 |-> out.ret32, ret64 |-> out.ret64, calls |-> out.calls,
     parts |-> out.parts]

NoCall ==
    Call("none", PyNone, FZero, FZero, FZero, PyNone,
         Outcome("none", 0, NoInt64, <<>>, <<>>))

NoMemo == [call |-> NoCall, stale |-> FALSE]

\* the kept call after one more call of a hash function
Stale(m) == IF m.call.op = "none" THEN m ELSE [m EXCEPT !.stale = TRUE]

Init ==
    /\ module = "boot"
    /\ nhash = "unset"
    /\ loads = 0
    /\ loadError = FALSE
    /\ prim \in [0..(NumClasses - 1) -> OutPool]
    /\ last = NoCall
    /\ memo = NoMemo

Import ==
    /\ module = "boot"
    /\ \E loaded \in BOOLEAN :
          /\ module' = ImportModule(loaded).module
          /\ nhash' = ImportModule(loaded).nhash
          /\ loadError' = ~loaded
    /\ loads' = loads + 1
    /\ UNCHANGED <<prim, last, memo>>

\* the effect of a finished call on the binding
Binding(out) ==
    /\ nhash' = IF out.calls # <<>> THEN calcHash_nhash(nhash) ELSE nhash
    /\ UNCHANGED <<module, loads, loadError, prim>>

GenerateLocationHash ==
    /\ module = "ready"
    /\ \E lat \in LatPool, lng \in LngPool, acc \in AccPool :
          \E out \in {generate_location_hash(lat, lng, acc)} :
              /\ last' = Call("loc", PyNone, lat, lng, acc, PyNone, out)
              /\ memo' \in {Stale(memo), [call |-> last', stale |-> FALSE]}
              /\ Binding(out)

GenerateLocationHashBySeed ==
    /\ module = "ready"
    /\ \E authticket \in BufferPool, lat \in LatPool, lng \in LngPool,
          acc \in AccPool :
          \E out \in {generate_location_hash_by_seed(authticket, lat, lng, acc)} :
              /\ last' = Call("seed", authticket, lat, lng, acc, PyNone, out)
              /\ Binding(out)
    /\ memo' = Stale(memo)

GenerateRequestHash ==
    /\ module = "ready"
    /\ \E authticket \in BufferPool, request \in BufferPool :
          \E out \in {generate_request_hash(authticket, request)} :
              /\ last' = Call("req", authticket, FZero, FZero, FZero, request, out)
              /\ Binding(out)
    /\ memo' = Stale(memo)

Next ==
    \/ Import
    \/ GenerateLocationHash
    \/ GenerateLocationHashBySeed
    \/ GenerateRequestHash

Spec == Init /\ [][Next]_vars

TypeOK ==
    /\ module \in {"boot", "ready", "failed"}
    /\ nhash \in {"unset", "lib"}
    /\ last.status \in {"none", "returned", "raised"}

----------------------------------------------------------------------------
(* Reference definitions used to state the properties *)

\* the bytes of an unsigned integer, most significant first
BigEndian(n) == Reverse(n)

\* high word XOR low word of an unsigned 64-bit integer
FoldToUint32(h) == [i \in 1..4 |-> BitXor(h[i + 4], h[i])]

\* the output of the primitive for a buffer
PrimitiveOf(buf) == compute_hash(buf, Len(buf))

\* the 32-bit two's complement pattern of r, for -2^31 <= r < 2^31
PatternOfInt32(r) ==
    LET u == IF r < 0 THEN (r + 2147483647) + 1 ELSE r
    IN  <<u % 256, (u \div 256) % 256, (u \div 65536) % 256,
          (u \div 16777216) + (IF r < 0 THEN 128 ELSE 0)>>

Payload(c) == c.parts[1] \o c.parts[2] \o c.parts[3]

Args(c) == <<c.lat, c.lng, c.acc>>

IsLocation(c) == c.op \in {"loc", "seed"} /\ c.status = "returned"

----------------------------------------------------------------------------
(* Properties *)

\* C1: every float encoded by d2h for a location hash is exactly 8 bytes long
C1_FixedWidthEncoding ==
    IsLocation(last) => \A i \in 1..3 : Len(last.parts[i]) = 8

\* C2: every buffer that hash32 or hash64salt32 hands to the primitive is
\* the 4 big-endian bytes of its seed followed by its payload, unchanged
C2_SeedPrepended ==
    /\ (last.op = "loc" /\ last.status = "returned") =>
          last.calls = <<BigEndian(HASH_SEED) \o Payload(last)>>
    /\ (last.op \in {"seed", "req"} /\ last.calls # <<>>) =>
          last.calls[1] = BigEndian(HASH_SEED) \o last.authticket.bytes
    /\ (last.op = "seed" /\ last.status = "returned") =>
          /\ Len(last.calls) = 2
          /\ last.calls[2] =
                BigEndian(FoldToUint32(PrimitiveOf(last.calls[1])))
                    \o Payload(last)

C2_Witness ==
    /\ last.op = "req"
    /\ last.authticket = PyBytes(<<>>)
    /\ last.calls # <<>>
    /\ last.calls[1] = <<97, 36, 127, 191>>

\* C3: the 32-bit value hash32 returns is the high word XOR the low word
\* of the primitive's unsigned 64-bit output, within [0, 2^32 - 1];
\* 0x0000000100000002 folds to 3
C3_FoldCorrect ==
    (last.op = "seed" /\ last.status = "returned") =>
        LET h == PrimitiveOf(last.calls[1])
            seed2 == SubSeq(last.calls[2], 1, 4)
        IN  /\ seed2 = BigEndian(FoldToUint32(h))
            /\ \A i \in 1..4 : seed2[i] \in 0..255
            /\ h = Out_1_2 => seed2 = <<0, 0, 0, 3>>
            /\ h = Out_Top => seed2 = <<128, 0, 0, 0>>

C3_Witness ==
    /\ last.op = "seed"
    /\ last.status = "returned"
    /\ PrimitiveOf(last.calls[1]) = Out_Top
    /\ SubSeq(last.calls[2], 1, 4) = <<128, 0, 0, 0>>

\* the plain location hash with HASH_SEED replaced by seed
LocationHashSeeded(lat, lng, acc, seed) ==
    LET location_bytes == Encoded[lat] \o Encoded[lng] \o Encoded[acc]
        loc_hash == hash32(PyBytes(location_bytes), seed)
    IN  [ret32 |-> c_int32(loc_hash.value), calls |-> loc_hash.calls]

\* C4: generate_location_hash_by_seed seeds the coordinate stage with the
\* folded unsigned hash of the auth ticket under HASH_SEED, and returns what
\* the plain location hash returns with that seed in place of HASH_SEED
C4_SeedChaining ==
    (last.op = "seed" /\ last.status = "returned") =>
        LET stage1 == FoldToUint32(PrimitiveOf(
                          BigEndian(HASH_SEED) \o last.authticket.bytes))
            plain == LocationHashSeeded(last.lat, last.lng, last.acc, stage1)
        IN  /\ last.calls[2] = plain.calls[1]
            /\ last.ret32 = plain.ret32

C4_Witness ==
    /\ last.op = "seed"
    /\ last.status = "returned"
    /\ SubSeq(last.calls[2], 1, 4) = <<128, 0, 0, 0>>
    /\ last.ret32 # generate_location_hash(last.lat, last.lng, last.acc).ret32

\* C5: generate_request_hash calls the primitive exactly twice, over
\* BE4(HASH_SEED) ++ authticket and then over BE8(stage1) ++ request with
\* stage1 the whole 64-bit output of the first call, and returns the second
\* output as a signed 64-bit integer (h, or h - 2^64 from 2^63 on)
C5_RequestHash ==
    (last.op = "req" /\ last.status = "returned") =>
        LET buf1 == BigEndian(HASH_SEED) \o last.authticket.bytes
            buf2 == BigEndian(PrimitiveOf(buf1)) \o last.request.bytes
            h == PrimitiveOf(buf2)
        IN  /\ last.calls = <<buf1, buf2>>
            /\ Len(buf2) = 8 + Len(last.request.bytes)
            /\ last.ret64.dig = h
            /\ last.ret64.ext = IF h[8] >= 128 THEN 255 ELSE 0

C5_Witness ==
    /\ last.op = "req"
    /\ last.status = "returned"
    /\ last.ret64 = [ext |-> 255, dig |-> Out_Top]
    /\ last.calls[1] # last.calls[2]

\* C6: the location hashes return the folded hash v reinterpreted as a
\* signed 32-bit integer: v up to 0x7FFFFFFF, v - 2^32 from 0x80000000 on,
\* always within [-2^31, 2^31 - 1]
C6_SignedReinterpretation ==
    IsLocation(last) =>
        LET v == FoldToUint32(PrimitiveOf(last.calls[Len(last.calls)]))
        IN  /\ last.ret32 >= (-2147483647) - 1
            /\ last.ret32 <= 2147483647
            /\ PatternOfInt32(last.ret32) = v
            /\ v = <<0, 0, 0, 128>> => last.ret32 = (-2147483647) - 1
            /\ v = <<255, 255, 255, 127>> => last.ret32 = 2147483647

C6_Witness ==
    /\ last.op = "loc"
    /\ last.status = "returned"
    /\ last.ret32 = (-2147483647) - 1
    /\ memo.stale
    /\ memo.call.ret32 = 2147483647

C8_LoadedOnce ==
    [][/\ module # "boot" => (nhash' = nhash /\ loads' = loads)
       /\ last'.calls # <<>> => (loads = 1 /\ nhash = "lib" /\ nhash' = "lib")
      ]_vars

C8_Witness ==
    /\ last.calls # <<>>
    /\ memo.stale
    /\ loads = 1
    /\ nhash = "lib"

\* C9: when the binding cannot be loaded the import fails and no hash
\* function ever returns; a hash function that returns has called the
\* loaded primitive, and one that does not has raised
C9_NoPlaceholder ==
    /\ loadError => (module = "failed" /\ last.op = "none")
    /\ last.op # "none" => last.status \in {"returned", "raised"}
    /\ last.status = "returned" =>
          (module = "ready" /\ nhash = "lib" /\ last.calls # <<>>)

C9_Witness == loadError /\ module = "failed" /\ loads = 1

\* C10: two location calls with different (lat, lng, acc) never build the
\* same payload d2h(lat) + d2h(lng) + d2h(acc)
C10_PayloadInjective ==
    (/\ IsLocation(last)
     /\ memo.call.op = "loc"
     /\ Args(last) # Args(memo.call)) =>
        Payload(last) # Payload(memo.call)

====
